---- MODULE Spec2Model ----
(***************************************************************************)
(* Model of spending_tool.py: the Streamlit script that turns the widget  *)
(* values (event rating, arena size, PPV length, cost selections and two  *)
(* optional budgets) into spending, revenue and profit figures.           *)
(*                                                                         *)
(* Streamlit re-executes the whole script on every widget change, so the  *)
(* state is the widget values together with the module-level variables    *)
(* the last run of the script assigned, and every action is "one widget   *)
(* changes, the script runs again".                                        *)
(*                                                                         *)
(* Numbers: the script's quantities are decimal fractions.  They are      *)
(* modelled as exact fixed-point decimals with seven fractional digits    *)
(* (a record [w, f] standing for w + f/Scale, 0 <= f < Scale), which is   *)
(* enough to hold every product the script forms without rounding; the    *)
(* binary rounding of IEEE doubles is not modelled.  The natural          *)
(* logarithm is computed by a truncated fixed-point series (eight         *)
(* fractional digits) and the advertising spend is kept to the cent.      *)
(***************************************************************************)
EXTENDS Integers, Sequences, FiniteSets, TLC

\* ------------------------------------------------------------------------
\* Bounds of the model (the widgets of the script are unbounded or too wide
\* to enumerate; these pick the sampled values).

\* sampled event ratings are the multiples of RatingStep in 0..1000 and
\* their successors
RatingStep == 125
\* sampled arena sizes are 0, ArenaStep, ..., MaxArenaSteps * ArenaStep
ArenaStep == 10000
MaxArenaSteps == 4
\* cameras slider positions 1..MaxCameras
MaxCameras == 2
\* optional budgets are 0, 50000, ..., MaxBudgetSteps * 50000
MaxBudgetSteps == 1
\* per-seat rates handed to calculate_production_spending, in dollars
\* -1..MaxRateDollars (and the cents around the cap)
MaxRateDollars == 6

\* ------------------------------------------------------------------------
\* Fixed-point decimals

Scale == 10000 * 1000

DInt(n) == [w |-> n, f |-> 0]

\* n / den for a power of ten den dividing Scale
DFrac(n, den) == [w |-> n \div den, f |-> (n % den) * (Scale \div den)]

DAdd(x, y) ==
    LET s == x.f + y.f
    IN  [w |-> x.w + y.w + s \div Scale, f |-> s % Scale]

DNeg(x) == IF x.f = 0 THEN [w |-> 0 - x.w, f |-> 0]
                      ELSE [w |-> 0 - x.w - 1, f |-> Scale - x.f]

DSub(x, y) == DAdd(x, DNeg(y))

DLt(x, y) == x.w < y.w \/ (x.w = y.w /\ x.f < y.f)

DLe(x, y) == x.w < y.w \/ (x.w = y.w /\ x.f <= y.f)

DMin(x, y) == IF DLt(y, x) THEN y ELSE x

DMax(x, y) == IF DLt(x, y) THEN y ELSE x

\* x * num / den, for num >= 0 and den a power of ten dividing Scale
DMul(x, num, den) ==
    LET p  == x.w * num
        t  == (p % den) * (Scale \div den) + (x.f * num) \div den
    IN  [w |-> p \div den + t \div Scale, f |-> t % Scale]

\* x * y for a decimal y >= 0 with two fractional digits
DMulHundredths(x, y) == DMul(x, y.w * 100 + y.f \div (Scale \div 100), 100)

\* nearest integer, halves to even (the "{:,.0f}" of the output section)
DRound(x) ==
    LET half == Scale \div 2
    IN  IF x.f > half \/ (x.f = half /\ x.w % 2 = 1) THEN x.w + 1 ELSE x.w

Zero == DInt(0)

\* ------------------------------------------------------------------------
\* Natural logarithm (np.log), in units of 10^-8

Limb == 100 * 100

\* floor(a * b / 10^8) by four-digit limbs
MulFix(a, b) ==
    LET a1 == a \div Limb
        a0 == a % Limb
        b1 == b \div Limb
        b0 == b % Limb
    IN  a1 * b1 + (a1 * b0 + a0 * b1 + (a0 * b0) \div Limb) \div Limb

\* the first k decimal digits of n / d, for 0 <= n < d, scaled by 10^k
RECURSIVE LongDiv(_, _, _)
LongDiv(n, d, k) ==
    IF k = 0 THEN 0
    ELSE LET q == (n * 10) \div d
         IN  q * 10 ^ (k - 1) + LongDiv((n * 10) % d, d, k - 1)

\* p/k + p*z2/(k+2) + p*z2^2/(k+4) + ... until the terms vanish
RECURSIVE AtanhSeries(_, _, _)
AtanhSeries(p, z2, k) ==
    IF p = 0 THEN 0
    ELSE p \div k + AtanhSeries(MulFix(p, z2), z2, k + 2)

\* ln(num / den) for num >= den > 0, as 2 * atanh((num - den) / (num + den))
Ln(num, den) ==
    LET z == LongDiv(num - den, num + den, 8)
    IN  2 * AtanhSeries(z, MulFix(z, z), 1)

\* ------------------------------------------------------------------------
\* The script's constants (scaled to integers; the unit is in the comment)

\* calculate_tickets_sold: 1216.66, 22.31 (hundredths), -0.00014 (units of
\* 0.00001), -0.04 (hundredths)
tickets_intercept == 121666
tickets_coef_event_rating == 2231
coef_production_values == -14
coef_arena_size == -4
\* calculate_ad_spending: 1,745,787.68 and 2,452.16 (hundredths), 0.00125
\* (units of 0.00001)
ad_log_coef == 174578768
ad_log_rate == 125
ad_intercept == 245216
\* calculate_production_spending: the cap 4.37 (hundredths)
per_seat_cap == 437
\* default per-ticket spending and the ticket price (dollars)
average_merch_spending == 15
average_food_spending == 20
ticket_price == 75
\* calculate_ppv_purchases: 157501.78, 1420.70 (hundredths), -0.90
\* (hundredths), 0.2 and 0.05 (hundredths)
ppv_intercept == 15750178
ppv_coef_event_rating == 142070
coef_ad_spending == -90
length_coef_linear == 20
length_coef_square == 5
\* $35 per PPV purchase; 50% contributes to profits (tenths)
ppv_price == 35
ppv_profit_share == 5
\* the cost of one camera, the slider's upper end for the event rating
camera_unit_cost == 10000
max_event_rating == 1000

\* ------------------------------------------------------------------------
\* The model functions of the script

\* the linear combination without its production-spending term
TicketsLinear_noprod(event_rating, production_spending, arena_size) ==
    DAdd(DAdd(DFrac(tickets_coef_event_rating * event_rating, 100),
              DFrac(coef_arena_size * arena_size, 100)),
         DFrac(tickets_intercept, 100))

\* the linear combination, before the cap
TicketsLinear(event_rating, production_spending, arena_size) ==
    DAdd(DAdd(DAdd(DFrac(tickets_coef_event_rating * event_rating, 100),
                   DMul(production_spending, coef_production_values, 100000)),
              DFrac(coef_arena_size * arena_size, 100)),
         DFrac(tickets_intercept, 100))

\* the model floored at 0 but not capped at the arena size
calculate_tickets_sold_nocap(event_rating, production_spending, arena_size) ==
    DMax(Zero, TicketsLinear(event_rating, production_spending, arena_size))

\* the model capped at the arena size but not floored at 0
calculate_tickets_sold_nofloor(event_rating, production_spending, arena_size) ==
    DMin(DInt(arena_size),
         TicketsLinear(event_rating, production_spending, arena_size))

calculate_tickets_sold(event_rating, production_spending, arena_size) ==
    DMax(Zero, DMin(DInt(arena_size),
                    TicketsLinear(event_rating, production_spending, arena_size)))

\* the argument of the logarithm, 0.00125 * event_rating + 1, in units of
\* 0.00001
LogArg(event_rating) == ad_log_rate * event_rating + 100000

\* the model without its logarithmic term
calculate_ad_spending_flat(event_rating) == DFrac(ad_intercept, 100)

calculate_ad_spending(event_rating) ==
    DFrac(MulFix(ad_log_coef, Ln(LogArg(event_rating), 100000)) + ad_intercept, 100)

\* the linear model without the cap
calculate_production_spending_uncapped(per_seat_spending, arena_size) ==
    DFrac(per_seat_spending * arena_size, 100)

\* per_seat_spending in hundredths of a dollar
calculate_production_spending(per_seat_spending, arena_size) ==
    LET capped_per_seat == IF per_seat_spending < per_seat_cap
                           THEN per_seat_spending ELSE per_seat_cap
    IN  DFrac(capped_per_seat * arena_size, 100)

calculate_merchandising_revenue(tickets) ==
    DMul(tickets, average_merch_spending, 1)

\* food and drink at the merchandising rate
calculate_food_drink_revenue_merch(tickets) ==
    DMul(tickets, average_merch_spending, 1)

calculate_food_drink_revenue(tickets) ==
    DMul(tickets, average_food_spending, 1)

\* the multiplier without its quadratic term
length_multiplier_linear(h) ==
    DAdd(DInt(1), DFrac(length_coef_linear * h, 100))

\* 1 + 0.2 * h - 0.05 * h^2
length_multiplier(h) ==
    DSub(DAdd(DInt(1), DFrac(length_coef_linear * h, 100)),
         DFrac(length_coef_square * h * h, 100))

base_purchases(event_rating, ad_spending) ==
    DMax(Zero, DAdd(DAdd(DFrac(ppv_coef_event_rating * event_rating, 100),
                         DMul(ad_spending, coef_ad_spending, 100)),
                    DFrac(ppv_intercept, 100)))

calculate_ppv_purchases(event_rating, ad_spending, h) ==
    DMulHundredths(base_purchases(event_rating, ad_spending),
                   DMax(Zero, length_multiplier(h)))

calculate_ppv_revenue(purchases) == DMul(purchases, ppv_price, 1)

\* the whole of the gross revenue counted as profit
calculate_ppv_profit_full(revenue) == revenue

calculate_ppv_profit(revenue) == DMul(revenue, ppv_profit_share, 10)
\* ------------------------------------------------------------------------
\* The script body (lines 64-86)

\* the PPV figures without the branch on a length of 0
PpvFigures_formula(h, event_rating, ad_spending) ==
    LET purchases == calculate_ppv_purchases(event_rating, ad_spending, h)
        revenue   == calculate_ppv_revenue(purchases)
    IN  [purchases |-> purchases, revenue |-> revenue,
         profit |-> calculate_ppv_profit(revenue)]

\* "Handle PPV Revenue": a PPV of length 0 sells nothing
PpvFigures(h, event_rating, ad_spending) ==
    IF h = 0
    THEN [purchases |-> Zero, revenue |-> Zero, profit |-> Zero]
    ELSE LET purchases == calculate_ppv_purchases(event_rating, ad_spending, h)
             revenue   == calculate_ppv_revenue(purchases)
         IN  [purchases |-> purchases, revenue |-> revenue,
              profit |-> calculate_ppv_profit(revenue)]

TotalRevenue(tickets_rev, merch_rev, food_rev, ppv_rev) ==
    DAdd(DAdd(DAdd(tickets_rev, merch_rev), food_rev), ppv_rev)

TotalCosts(ad_spending, prod_spending, commentators, cameras) ==
    DAdd(DAdd(DAdd(ad_spending, prod_spending), DInt(commentators)), DInt(cameras))

Profit(tickets_rev, merch_rev, food_rev, ppv_prof, costs) ==
    DSub(DAdd(DAdd(DAdd(tickets_rev, merch_rev), food_rev), ppv_prof), costs)

\* lines 68-86: everything the script derives from the two recommended
\* spendings and the widget values
ScriptWith(ad_sp, prod_sp, rating, arena, h, commentators, cameras) ==
    LET tickets == calculate_tickets_sold(rating, prod_sp, arena)
        t_rev   == DMul(tickets, ticket_price, 1)
        m_rev   == calculate_merchandising_revenue(tickets)
        f_rev   == calculate_food_drink_revenue(tickets)
        ppv     == PpvFigures(h, rating, ad_sp)
        costs   == TotalCosts(ad_sp, prod_sp, commentators, cameras)
    IN  [recommended_ad_spending   |-> ad_sp,
         recommended_prod_spending |-> prod_sp,
         tickets_sold              |-> tickets,
         ticket_revenue            |-> t_rev,
         merchandising_revenue     |-> m_rev,
         food_drink_revenue        |-> f_rev,
         ppv_purchases             |-> ppv.purchases,
         ppv_revenue               |-> ppv.revenue,
         ppv_profit                |-> ppv.profit,
         total_revenue             |-> TotalRevenue(t_rev, m_rev, f_rev, ppv.revenue),
         total_costs               |-> costs,
         profit                    |-> Profit(t_rev, m_rev, f_rev, ppv.profit, costs)]

\* a script in which a non-zero budget replaces the recommended spending
Script_budgeted(rating, arena, h, commentators, cameras, ad, prod) ==
    ScriptWith(IF ad > 0 THEN DInt(ad) ELSE calculate_ad_spending(rating),
               IF prod > 0 THEN DInt(prod)
                           ELSE calculate_production_spending(per_seat_cap, arena),
               rating, arena, h, commentators, cameras)

\* one run of the script on the widget values (lines 64-86); ad and prod
\* are the two optional budgets, which no statement of the script reads
Script(rating, arena, h, commentators, cameras, ad, prod) ==
    ScriptWith(calculate_ad_spending(rating),
               calculate_production_spending(per_seat_cap, arena),
               rating, arena, h, commentators, cameras)

\* ------------------------------------------------------------------------
\* State

VARIABLES
    \* the widgets (lines 56-62)
    event_rating, arena_size, ppv_length_hours, commentators_cost,
    cameras_cost, ad_budget, prod_budget,
    \* the module-level results of the last run (lines 65-86)
    recommended_ad_spending, recommended_prod_spending, tickets_sold,
    ticket_revenue, merchandising_revenue, food_drink_revenue,
    ppv_purchases, ppv_revenue, ppv_profit,
    total_revenue, total_costs, profit,
    \* the last evaluation of calculate_production_spending: its two
    \* arguments and what it returned
    prod_call

widgets == <<event_rating, arena_size, ppv_length_hours, commentators_cost,
             cameras_cost, ad_budget, prod_budget>>

results == <<recommended_ad_spending, recommended_prod_spending, tickets_sold,
             ticket_revenue, merchandising_revenue, food_drink_revenue,
             ppv_purchases, ppv_revenue, ppv_profit,
             total_revenue, total_costs, profit>>

vars == <<widgets, results, prod_call>>

\* the values each widget offers (sampled where the widget's range is wide)
Ratings ==
    {r \in 0..max_event_rating : r % RatingStep = 0 \/ (r - 1) % RatingStep = 0}
        \cup {500}

ArenaSizes == {k * ArenaStep : k \in 0..MaxArenaSteps} \cup {20000}

PpvLengths == {0, 1, 2, 3}

CommentatorLevels == {10000, 50000, 100000}

CameraCosts == {k * camera_unit_cost : k \in 1..MaxCameras}

Budgets == {k * 50000 : k \in 0..MaxBudgetSteps}

\* per-seat rates in hundredths of a dollar
Rates == {k * 100 : k \in -1..MaxRateDollars}
             \cup {per_seat_cap - 1, per_seat_cap, per_seat_cap + 1}

\* the script runs on the given widget values and assigns its variables
Run(rating, arena, h, commentators, cameras, ad, prod) ==
    \E r \in {Script(rating, arena, h, commentators, cameras, ad, prod)} :
        /\ recommended_ad_spending'   = r.recommended_ad_spending
        /\ recommended_prod_spending' = r.recommended_prod_spending
        /\ tickets_sold'              = r.tickets_sold
        /\ ticket_revenue'            = r.ticket_revenue
        /\ merchandising_revenue'     = r.merchandising_revenue
        /\ food_drink_revenue'        = r.food_drink_revenue
        /\ ppv_purchases'             = r.ppv_purchases
        /\ ppv_revenue'               = r.ppv_revenue
        /\ ppv_profit'                = r.ppv_profit
        /\ total_revenue'             = r.total_revenue
        /\ total_costs'               = r.total_costs
        /\ profit'                    = r.profit
        /\ prod_call' = [per_seat_spending |-> per_seat_cap,
                         arena_size |-> arena,
                         result |-> r.recommended_prod_spending]

\* the first run, on the widgets' default values
Init ==
    /\ event_rating = 500
    /\ arena_size = 20000
    /\ ppv_length_hours = 3
    /\ commentators_cost = 10000
    /\ cameras_cost = 1 * camera_unit_cost
    /\ ad_budget = 0
    /\ prod_budget = 0
    /\ LET r == Script(500, 20000, 3, 10000, 1 * camera_unit_cost, 0, 0)
       IN  /\ recommended_ad_spending   = r.recommended_ad_spending
           /\ recommended_prod_spending = r.recommended_prod_spending
           /\ tickets_sold              = r.tickets_sold
           /\ ticket_revenue            = r.ticket_revenue
           /\ merchandising_revenue     = r.merchandising_revenue
           /\ food_drink_revenue        = r.food_drink_revenue
           /\ ppv_purchases             = r.ppv_purchases
           /\ ppv_revenue               = r.ppv_revenue
           /\ ppv_profit                = r.ppv_profit
           /\ total_revenue             = r.total_revenue
           /\ total_costs               = r.total_costs
           /\ profit                    = r.profit
           /\ prod_call = [per_seat_spending |-> per_seat_cap,
                           arena_size |-> 20000,
                           result |-> r.recommended_prod_spending]

\* ------------------------------------------------------------------------
\* Actions: a widget changes and the script runs again

SetEventRating ==
    \E v \in Ratings :
        /\ v # event_rating
        /\ event_rating' = v
        /\ UNCHANGED <<arena_size, ppv_length_hours, commentators_cost,
                       cameras_cost, ad_budget, prod_budget>>
        /\ Run(v, arena_size, ppv_length_hours, commentators_cost,
               cameras_cost, ad_budget, prod_budget)

SetArenaSize ==
    \E v \in ArenaSizes :
        /\ v # arena_size
        /\ arena_size' = v
        /\ UNCHANGED <<event_rating, ppv_length_hours, commentators_cost,
                       cameras_cost, ad_budget, prod_budget>>
        /\ Run(event_rating, v, ppv_length_hours, commentators_cost,
               cameras_cost, ad_budget, prod_budget)

SetPpvLength ==
    \E v \in PpvLengths :
        /\ v # ppv_length_hours
        /\ ppv_length_hours' = v
        /\ UNCHANGED <<event_rating, arena_size, commentators_cost,
                       cameras_cost, ad_budget, prod_budget>>
        /\ Run(event_rating, arena_size, v, commentators_cost,
               cameras_cost, ad_budget, prod_budget)

SetCommentators ==
    \E v \in CommentatorLevels :
        /\ v # commentators_cost
        /\ commentators_cost' = v
        /\ UNCHANGED <<event_rating, arena_size, ppv_length_hours,
                       cameras_cost, ad_budget, prod_budget>>
        /\ Run(event_rating, arena_size, ppv_length_hours, v,
               cameras_cost, ad_budget, prod_budget)

SetCameras ==
    \E v \in CameraCosts :
        /\ v # cameras_cost
        /\ cameras_cost' = v
        /\ UNCHANGED <<event_rating, arena_size, ppv_length_hours,
                       commentators_cost, ad_budget, prod_budget>>
        /\ Run(event_rating, arena_size, ppv_length_hours, commentators_cost,
               v, ad_budget, prod_budget)

SetAdBudget ==
    \E v \in Budgets :
        /\ v # ad_budget
        /\ ad_budget' = v
        /\ UNCHANGED <<event_rating, arena_size, ppv_length_hours,
                       commentators_cost, cameras_cost, prod_budget>>
        /\ Run(event_rating, arena_size, ppv_length_hours, commentators_cost,
               cameras_cost, v, prod_budget)

SetProdBudget ==
    \E v \in Budgets :
        /\ v # prod_budget
        /\ prod_budget' = v
        /\ UNCHANGED <<event_rating, arena_size, ppv_length_hours,
                       commentators_cost, cameras_cost, ad_budget>>
        /\ Run(event_rating, arena_size, ppv_length_hours, commentators_cost,
               cameras_cost, ad_budget, v)

\* calculate_production_spending applied on its own to a per-seat rate and
\* the current arena size
CallProductionSpending ==
    \E rate \in Rates :
        /\ prod_call' = [per_seat_spending |-> rate,
                         arena_size |-> arena_size,
                         result |-> calculate_production_spending(rate, arena_size)]
        /\ UNCHANGED <<widgets, results>>

Next ==
    \/ SetEventRating
    \/ SetArenaSize
    \/ SetPpvLength
    \/ SetCommentators
    \/ SetCameras
    \/ SetAdBudget
    \/ SetProdBudget

Spec == Init /\ [][Next]_vars

\* the function under test: the arena size and the rating change, and
\* calculate_production_spending is applied to any rate
NextFn ==
    \/ SetEventRating
    \/ SetArenaSize
    \/ CallProductionSpending

SpecFn == Init /\ [][NextFn]_vars

\* ------------------------------------------------------------------------
\* Properties

\* the linear ticket model on the values of the last run
Linear == TicketsLinear(event_rating, recommended_prod_spending, arena_size)

\* C1: with the production spending the script supplies (4.37 x arena
\* size), tickets_sold lies in [0, arena_size], and it is the linear
\* combination capped at the arena size and then floored at 0.
C1_TicketsWithinArena ==
    /\ recommended_prod_spending = DFrac(per_seat_cap * arena_size, 100)
    /\ DLe(Zero, tickets_sold)
    /\ DLe(tickets_sold, DInt(arena_size))
    /\ DLt(Linear, Zero) => tickets_sold = Zero
    /\ DLt(DInt(arena_size), Linear) => tickets_sold = DInt(arena_size)
    /\ (DLe(Zero, Linear) /\ DLe(Linear, DInt(arena_size))) => tickets_sold = Linear

\* the cap binds: the linear model asks for more seats than the arena has
C1_CapBinds ==
    /\ arena_size > 0
    /\ DLt(DInt(arena_size), Linear)
    /\ tickets_sold = DInt(arena_size)

\* C2: a PPV length of 0 gives 0 purchases, 0 revenue and 0 profit
\* contribution whatever the rating and the ad spending, although the
\* purchases formula at h = 0 is the base purchases times 1.
C2_ZeroLengthPpv ==
    ppv_length_hours = 0 =>
        /\ ppv_purchases = Zero
        /\ ppv_revenue = Zero
        /\ ppv_profit = Zero
        /\ calculate_ppv_purchases(event_rating, recommended_ad_spending, 0)
               = base_purchases(event_rating, recommended_ad_spending)

\* length 0, figures forced to 0 while the formula's own value is positive
C2_FormulaNonzero ==
    /\ ppv_length_hours = 0
    /\ ppv_purchases = Zero
    /\ DLt(Zero, calculate_ppv_purchases(event_rating, recommended_ad_spending, 0))

RevenueLessCosts == DSub(total_revenue, total_costs)

\* C3: total_revenue counts the gross PPV revenue and profit half of it:
\* total_revenue - total_costs exceeds profit by exactly 0.5 x ppv_revenue,
\* so the two differ when ppv_revenue > 0 and agree when it is 0.
C3_GrossVersusHalf ==
    /\ total_revenue = DAdd(DAdd(DAdd(ticket_revenue, merchandising_revenue),
                                 food_drink_revenue), ppv_revenue)
    /\ total_costs = DAdd(DAdd(DAdd(recommended_ad_spending,
                                    recommended_prod_spending),
                               DInt(commentators_cost)), DInt(cameras_cost))
    /\ DSub(RevenueLessCosts, profit) = DMul(ppv_revenue, 5, 10)
    /\ DLt(Zero, ppv_revenue) => RevenueLessCosts # profit
    /\ ppv_revenue = Zero => RevenueLessCosts = profit

\* a run with PPV revenue, where the two headline figures differ
C3_PpvSold ==
    /\ DLt(Zero, ppv_revenue)
    /\ RevenueLessCosts # profit

\* the multiplier calculate_ppv_purchases applies to the base purchases
AppliedMultiplier == DMax(Zero, length_multiplier(ppv_length_hours))

BasePurchases == base_purchases(event_rating, recommended_ad_spending)

\* C4 as stated: the multiplier is 1.15, 1.20 and 1.05 at h = 1, 2 and 3,
\* and the multiplier applied is never negative.
C4_AsStated ==
    /\ ppv_length_hours = 1 => length_multiplier(ppv_length_hours) = DFrac(115, 100)
    /\ ppv_length_hours = 2 => length_multiplier(ppv_length_hours) = DFrac(120, 100)
    /\ ppv_length_hours = 3 => length_multiplier(ppv_length_hours) = DFrac(105, 100)
    /\ DLe(Zero, AppliedMultiplier)

\* C4 amended: the multiplier is 1.15, 1.20 and 1.15 at h = 1, 2 and 3,
\* the purchases of a run are the base purchases times it, and the
\* multiplier applied is never negative.
C4_Multiplier ==
    /\ ppv_length_hours = 1 => length_multiplier(ppv_length_hours) = DFrac(115, 100)
    /\ ppv_length_hours = 2 => length_multiplier(ppv_length_hours) = DFrac(120, 100)
    /\ ppv_length_hours = 3 => length_multiplier(ppv_length_hours) = DFrac(115, 100)
    /\ DLe(Zero, AppliedMultiplier)
    /\ ppv_length_hours # 0 =>
           ppv_purchases = DMulHundredths(BasePurchases, AppliedMultiplier)

\* a three-hour PPV: the purchases are 1.15 times positive base purchases
C4_ThreeHours ==
    /\ ppv_length_hours = 3
    /\ DLt(Zero, BasePurchases)
    /\ ppv_purchases = DMul(BasePurchases, 115, 100)

Scenario ==
    /\ event_rating = 500
    /\ arena_size = 20000
    /\ ppv_length_hours = 3
    /\ commentators_cost = 10000
    /\ cameras_cost = 10000

\* C5 as stated: in the scenario the production spending is 87,400 and
\* tickets_sold is the clamped linear combination, about 11,919 tickets.
C5_AsStated ==
    Scenario =>
        /\ recommended_prod_spending = DInt(87400)
        /\ tickets_sold = DMax(Zero, DMin(DInt(20000), Linear))
        /\ DRound(tickets_sold) = 11919

\* C5 amended: in the scenario the production spending is 87,400 and
\* tickets_sold is the clamped linear combination, which is 11,559.424
\* and rounds to 11,559 tickets.
C5_Scenario ==
    Scenario =>
        /\ recommended_prod_spending = DInt(87400)
        /\ tickets_sold = DMax(Zero, DMin(DInt(20000), Linear))
        /\ tickets_sold = DFrac(11559424, 1000)
        /\ DRound(tickets_sold) = 11559

\* the scenario, with the figure the script shows for it
C5_ScenarioRun ==
    /\ Scenario
    /\ DRound(tickets_sold) = 11559

\* C6: calculate_production_spending returns min(rate, 4.37) x arena size:
\* the rate times the arena size up to the cap, 4.37 x arena size above it
\* and never more than that; the script's own figure is 4.37 x arena size.
C6_ProductionSpending ==
    LET rate == prod_call.per_seat_spending
        a    == prod_call.arena_size
    IN  /\ a >= 0
        /\ rate <= per_seat_cap => prod_call.result = DFrac(rate * a, 100)
        /\ rate >= per_seat_cap => prod_call.result = DFrac(per_seat_cap * a, 100)
        /\ DLe(prod_call.result, DFrac(per_seat_cap * a, 100))
        /\ recommended_prod_spending = DFrac(per_seat_cap * arena_size, 100)

\* a rate above the cap on a non-empty arena, held to 4.37 a seat
C6_RateAboveCap ==
    /\ prod_call.per_seat_spending > per_seat_cap
    /\ prod_call.arena_size > 0
    /\ prod_call.result = DFrac(per_seat_cap * prod_call.arena_size, 100)

\* C7: the results are a function of the five consumed widgets alone: a
\* run that leaves event_rating, arena_size, ppv_length_hours,
\* commentators_cost and cameras_cost as they were (whatever happens to
\* ad_budget and prod_budget) produces the same value in every result.
C7_BudgetsUnread ==
    [][(/\ event_rating' = event_rating
        /\ arena_size' = arena_size
        /\ ppv_length_hours' = ppv_length_hours
        /\ commentators_cost' = commentators_cost
        /\ cameras_cost' = cameras_cost) => results' = results]_vars

\* a run on budgets that both differ from their defaults
C7_BothBudgetsSet ==
    /\ ad_budget > 0
    /\ prod_budget > 0
    /\ recommended_ad_spending = calculate_ad_spending(event_rating)

\* C8: the three in-arena revenues and the three PPV figures are never
\* negative, also where the linear ticket model is.
C8_NonNegative ==
    /\ DLe(Zero, ticket_revenue)
    /\ DLe(Zero, merchandising_revenue)
    /\ DLe(Zero, food_drink_revenue)
    /\ DLe(Zero, ppv_purchases)
    /\ DLe(Zero, ppv_revenue)
    /\ DLe(Zero, ppv_profit)

\* the linear ticket model is negative, the revenue is 0 and the run loses
\* money
C8_NegativeModel ==
    /\ DLt(Linear, Zero)
    /\ ticket_revenue = Zero
    /\ DLt(profit, Zero)

\* C9: the ad spending at rating 0 is 2452.16, the argument of the
\* logarithm is positive, and a run on a higher rating than the run before
\* it recommends a strictly higher ad spending.
C9_AdSpending ==
    /\ [](/\ LogArg(event_rating) > 0
          /\ event_rating = 0 => recommended_ad_spending = DFrac(245216, 100))
    /\ [][event_rating' > event_rating =>
              DLt(recommended_ad_spending, recommended_ad_spending')]_vars

\* the top rating, with an ad spending above the one at rating 0
C9_TopRating ==
    /\ event_rating = max_event_rating
    /\ DLt(DFrac(245216, 100), recommended_ad_spending)

InArenaRevenue ==
    DAdd(DAdd(ticket_revenue, merchandising_revenue), food_drink_revenue)

\* C10: the ticket, merchandising and food and drink revenues are 75, 15
\* and 20 times tickets_sold, so they add up to 110 x tickets_sold, which is
\* at most 110 x arena_size.
C10_InArenaRevenue ==
    /\ ticket_revenue = DMul(tickets_sold, 75, 1)
    /\ merchandising_revenue = DMul(tickets_sold, 15, 1)
    /\ food_drink_revenue = DMul(tickets_sold, 20, 1)
    /\ InArenaRevenue = DMul(tickets_sold, 110, 1)
    /\ DLe(InArenaRevenue, DInt(110 * arena_size))

\* a run that sells a fractional, uncapped number of tickets
C10_TicketsSold ==
    /\ DLt(Zero, tickets_sold)
    /\ DLt(tickets_sold, DInt(arena_size))
    /\ InArenaRevenue = DMul(tickets_sold, 110, 1)


====
